---- MODULE Spec2Model ----
(***************************************************************************)
(* The handlers of src/src/controllers/message.controller.js (friends,      *)
(* pins, notifications, messages, the sidebar) over the User documents of   *)
(* src/unnamed/part_000 (the mongoose schema).                              *)
(*                                                                         *)
(* Every handler is an async function: it runs from one `await` of a store *)
(* operation to the next, and any other request may run in between.  Each  *)
(* store operation (findById, findByIdAndUpdate) acts on ONE document and  *)
(* is atomic on it.  So every await is one action of the model, and a      *)
(* handler in flight is a call slot holding its position (pc), its         *)
(* arguments and the documents it has read so far.                         *)
(***************************************************************************)
EXTENDS Integers, Sequences, FiniteSets

\* ------------------------------------------------------------------ bounds

\* Requests accepted by the server in one behaviour.
MaxCalls == 3
\* Requests in flight at the same time.
MaxConc == 2
\* Messages sent in one behaviour.
MaxSends == 2
\* The latest reading of the server's clock (the first reading is 1).
MaxTime == 2
\* The longest friends list the sidebar is computed for.
MaxFriends == 3

\* ------------------------------------------------------------ identities

\* The users that exist in the store.
Users == {"a", "b", "c"}
\* The store with one more user, for a user with three friends.
Everyone == Users \cup {"d"}
\* The store of two users who exchange messages.
Pair == {"a", "b"}
\* req.body.userId absent: `!userId` is true.
Missing == ""
\* A well-formed id of no stored user.
Stranger == "zz"
\* new Date(0), the time of a friend with no recorded interaction.
Epoch == 0

Procs == 1..MaxConc

\* pinnedChats validator bound (part_000:5).
PinLimit == 2

\* ------------------------------------------------------------------ state

VARIABLES
  users,    \* the User collection: users[id] is the document of user id
  calls,    \* calls[p]: the handler running in slot p
  ncalls,   \* requests accepted so far
  messages, \* the Message collection, in the order of the saves
  now       \* the server's clock, read by `new Date()`

vars == <<users, calls, ncalls, messages, now>>

\* What the friends, pins and notifications handlers never touch.
msgvars == <<messages, now>>

\* What a client can put in req.body.userId or in the :id of a route.
BodyIds == DOMAIN users \cup {Missing, Stranger}

\* ------------------------------------------------------ the User schema

\* Validator function to limit array length to 2.
arrayLimit(val) == Len(val) <= PinLimit

\* An element of friendRequests: {from, createdAt}.  createdAt is never read.
Request(from) == [from |-> from]

\* An element of notifications: {type, from, read: default false, createdAt}.
Notification(type, from) == [type |-> type, from |-> from, read |-> FALSE]

\* lastInteractions: a Map of Date, empty by default.
NoInteractions == [peer \in {} |-> Epoch]

\* A new document: the schema's defaults.
NewUser ==
  [friends |-> <<>>, pinnedChats |-> <<>>, friendRequests |-> <<>>,
   notifications |-> <<>>, lastInteractions |-> NoInteractions]

\* ------------------------------------------------- array helpers (JS/Mongo)

\* Array.prototype.includes
includes(arr, x) == \E i \in 1..Len(arr) : arr[i] = x

\* friendRequests.find(request => request.from.toString() === id.toString()),
\* used only for its truthiness.
findRequest(reqs, id) == \E i \in 1..Len(reqs) : reqs[i].from = id

\* $pull: { friends: id } / $pull: { pinnedChats: id }: removes every occurrence.
pull(arr, x) == SelectSeq(arr, LAMBDA e : e /= x)

\* $pull: { friendRequests: { from: id } }: removes every matching element.
pullRequests(reqs, id) == SelectSeq(reqs, LAMBDA r : r.from /= id)

\* $push: appends one element.
push(arr, x) == Append(arr, x)

\* ------------------------------------------ the update documents, by handler

\* addFriend_acceptMeUpdate without the caller's notification: the update the
\* accept handler makes to its own caller (lines 195-198).
addFriend_acceptMeUpdate_silent(doc, userId) ==
  [doc EXCEPT !.friendRequests = pullRequests(@, userId),
              !.friends = push(@, userId)]

\* addFriend, lines 114-123: $pull the request, $push friend and notification.
addFriend_acceptMeUpdate(doc, userId) ==
  [doc EXCEPT !.friendRequests = pullRequests(@, userId),
              !.friends = push(@, userId),
              !.notifications = push(@, Notification("friend_accepted", userId))]

\* addFriend, lines 125-133: $push friend and notification.
addFriend_acceptOtherUpdate(doc, loggedInUserId) ==
  [doc EXCEPT !.friends = push(@, loggedInUserId),
              !.notifications =
                 push(@, Notification("friend_accepted", loggedInUserId))]

\* A request pushed without its notification.
addFriend_requestUpdate_silent(doc, loggedInUserId) ==
  [doc EXCEPT !.friendRequests = push(@, Request(loggedInUserId))]

\* addFriend, lines 150-158: $push request and notification.
addFriend_requestUpdate(doc, loggedInUserId) ==
  [doc EXCEPT !.friendRequests = push(@, Request(loggedInUserId)),
              !.notifications =
                 push(@, Notification("friend_request", loggedInUserId))]

\* acceptFriendRequest, lines 195-198: $pull the request, $push friend.
acceptFriendRequest_meUpdate(doc, userId) ==
  [doc EXCEPT !.friendRequests = pullRequests(@, userId),
              !.friends = push(@, userId)]

\* acceptFriendRequest, lines 201-209: $push friend and notification.
acceptFriendRequest_otherUpdate(doc, loggedInUserId) ==
  [doc EXCEPT !.friends = push(@, loggedInUserId),
              !.notifications =
                 push(@, Notification("friend_accepted", loggedInUserId))]

\* A decline that tells the requester: the request pulled and a notification
\* pushed, on the one document it is given.
declineFriendRequest_update_notifying(doc, userId) ==
  [doc EXCEPT !.friendRequests = pullRequests(@, userId),
              !.notifications = push(@, Notification("friend_request", userId))]

\* declineFriendRequest, lines 246-248: $pull the request.
declineFriendRequest_update(doc, userId) ==
  [doc EXCEPT !.friendRequests = pullRequests(@, userId)]

\* removeFriend, lines 322-324 and 326-328: $pull the friend.
removeFriend_update(doc, id) == [doc EXCEPT !.friends = pull(@, id)]

\* A pin put in front of the others.
pinChat_update_front(doc, userId) ==
  [doc EXCEPT !.pinnedChats = <<userId>> \o @]

\* pinChat, lines 383-385: $push the chat.  The update is given no options,
\* so the schema's validators (arrayLimit) are not run on it.
pinChat_update(doc, userId) == [doc EXCEPT !.pinnedChats = push(@, userId)]

\* Reading the notifications empties the list.
markNotificationsAsRead_update_clearing(doc) ==
  [doc EXCEPT !.notifications = <<>>]

\* markNotificationsAsRead, lines 293-297: $set read on every element of
\* notifications whose read is false.
markNotificationsAsRead_update(doc) ==
  [doc EXCEPT !.notifications =
     [i \in DOMAIN @ |-> IF @[i].read = FALSE THEN [@[i] EXCEPT !.read = TRUE]
                                              ELSE @[i]]]

\* unpinChat, lines 404-406: $pull the chat.
unpinChat_update(doc, userId) == [doc EXCEPT !.pinnedChats = pull(@, userId)]

\* ------------------------------------------------------------ the store

\* User.findById(id): the document, or null.
findById(id) == users[id]

\* User.findByIdAndUpdate(id, update) on the collection coll: one atomic
\* update of one document; no document, no change.
Updated(coll, id, doc) == IF id \in DOMAIN coll THEN [coll EXCEPT ![id] = doc] ELSE coll

findByIdAndUpdate(id, doc) == users' = Updated(users, id, doc)

\* ------------------------------------------------------------- call slots

\* What addFriend keeps of userToAdd: the one field it reads after its second
\* await.  currentUser is read only in the step that fetches it.
NoRequests == <<>>

\* What a handler has not computed yet: sendMessage's newMessage, the JSON
\* body of a read.
Nothing == <<>>

Idle ==
  [pc |-> "idle", op |-> "none", me |-> Missing, uid |-> Missing,
   userToAdd |-> NoRequests, file |-> FALSE, currentTime |-> Epoch,
   body |-> Nothing, res |-> "none", emit |-> "none"]

\* A slot can take a new request.
Free(p) == calls[p].pc \in {"idle", "done"}

\* The request has been answered: res is the response, emit the socket event
\* sent to uid (or "none").
Done(c, res, emit) ==
  [pc |-> "done", op |-> c.op, me |-> c.me, uid |-> c.uid,
   userToAdd |-> NoRequests, file |-> c.file, currentTime |-> Epoch,
   body |-> Nothing, res |-> res, emit |-> emit]

\* A new request for handler op by the authenticated user me, with body id uid.
Begin(op, me, uid) ==
  [pc |-> "begin", op |-> op, me |-> me, uid |-> uid,
   userToAdd |-> NoRequests, file |-> FALSE, currentTime |-> Epoch,
   body |-> Nothing, res |-> "none", emit |-> "none"]

At(c, pcv) == [c EXCEPT !.pc = pcv]

\* A request is taken by the first free slot.
Accept(p) ==
  /\ Free(p)
  /\ \A q \in Procs : q < p => ~Free(q)
  /\ ncalls < MaxCalls
  /\ ncalls' = ncalls + 1

\* getReceiverSocketId(userId): the socket map is owned by the transport; a
\* user may or may not be connected at the time of the emit.
Emitted(reachable, event) == IF reachable THEN event ELSE "none"

\* What an emit can come to: the user has no socket and nothing is sent
\* (emit "none"), the event is handed to the transport (emit the event), or
\* the transport throws (emit "fault").
Pushes == {"unreachable", "delivered", "fault"}

\* The emit and the response that follows it.  Every emit is inside the
\* handler's try block: what it throws is caught there and answered with 500.
Replied(c, res, event, outcome) ==
  IF outcome = "fault" THEN Done(c, "InternalFailure", "fault")
  ELSE Done(c, res, Emitted(outcome = "delivered", event))

\* ---------------------------------------------------------------- addFriend

\* Lines 81-92: userId check, then `await User.findById(userId)`.
addFriend_findTarget(p) ==
  \E me \in DOMAIN users, uid \in BodyIds :
    /\ Accept(p)
    /\ LET c == Begin("addFriend", me, uid) IN
       calls' = [calls EXCEPT ![p] =
         IF uid = Missing THEN Done(c, "ValidationError", "none")
         ELSE IF uid \notin DOMAIN users THEN Done(c, "NotFound", "none")
         ELSE [At(c, "af_me") EXCEPT !.userToAdd = findById(uid).friendRequests]]
    /\ UNCHANGED users
    /\ UNCHANGED msgvars

\* Lines 94-112: `await User.findById(loggedInUserId)` and the three checks:
\* already friends, request already sent, request already received.
addFriend_check(p) ==
  /\ calls[p].pc = "af_me"
  /\ LET c == calls[p]
         currentUser == findById(c.me)
     IN calls' = [calls EXCEPT ![p] =
          IF includes(currentUser.friends, c.uid)
            THEN Done(c, "AlreadyFriends", "none")
          ELSE IF findRequest(c.userToAdd, c.me)
            THEN Done(c, "DuplicateRequest", "none")
          ELSE IF findRequest(currentUser.friendRequests, c.uid)
            THEN [At(c, "af_acceptMe") EXCEPT !.userToAdd = NoRequests]
          ELSE [At(c, "af_request") EXCEPT !.userToAdd = NoRequests]]
  /\ UNCHANGED <<users, ncalls>>
  /\ UNCHANGED msgvars

\* Lines 114-123: the caller's document updated.
addFriend_acceptMe(p) ==
  /\ calls[p].pc = "af_acceptMe"
  /\ LET c == calls[p] IN
     /\ findByIdAndUpdate(c.me, addFriend_acceptMeUpdate(users[c.me], c.uid))
     /\ calls' = [calls EXCEPT ![p] = At(c, "af_acceptOther")]
  /\ UNCHANGED ncalls
  /\ UNCHANGED msgvars

\* Lines 125-133: the other user's document updated.
addFriend_acceptOther(p) ==
  /\ calls[p].pc = "af_acceptOther"
  /\ LET c == calls[p] IN
     /\ findByIdAndUpdate(c.uid, addFriend_acceptOtherUpdate(users[c.uid], c.me))
     /\ calls' = [calls EXCEPT ![p] = At(c, "af_replyAccepted")]
  /\ UNCHANGED ncalls
  /\ UNCHANGED msgvars

\* Lines 135-146: `await User.findById(userId)`, the socket emit, 200 with the
\* user read.
addFriend_replyAccepted(p) ==
  /\ calls[p].pc = "af_replyAccepted"
  /\ \E outcome \in Pushes :
       calls' = [calls EXCEPT ![p] =
         Replied(calls[p], "FriendAdded", "friendRequestAccepted", outcome)]
  /\ UNCHANGED <<users, ncalls>>
  /\ UNCHANGED msgvars

\* Lines 149-158: the target's document updated.
addFriend_request(p) ==
  /\ calls[p].pc = "af_request"
  /\ LET c == calls[p] IN
     /\ findByIdAndUpdate(c.uid, addFriend_requestUpdate(users[c.uid], c.me))
     /\ calls' = [calls EXCEPT ![p] = At(c, "af_replySent")]
  /\ UNCHANGED ncalls
  /\ UNCHANGED msgvars

\* Lines 160-168: the socket emit and 200 "Friend request sent successfully".
addFriend_replySent(p) ==
  /\ calls[p].pc = "af_replySent"
  /\ \E outcome \in Pushes :
       calls' = [calls EXCEPT ![p] =
         Replied(calls[p], "RequestSent", "newFriendRequest", outcome)]
  /\ UNCHANGED <<users, ncalls>>
  /\ UNCHANGED msgvars

\* ------------------------------------------------------ acceptFriendRequest

\* Lines 177-192: userId check, `await User.findById(loggedInUserId)`, the
\* request looked up.
acceptFriendRequest_check(p) ==
  \E me \in DOMAIN users, uid \in BodyIds :
    /\ Accept(p)
    /\ LET c == Begin("acceptFriendRequest", me, uid)
           currentUser == findById(me)
       IN calls' = [calls EXCEPT ![p] =
            IF uid = Missing THEN Done(c, "ValidationError", "none")
            ELSE IF ~findRequest(currentUser.friendRequests, uid)
              THEN Done(c, "NotFound", "none")
            ELSE At(c, "ac_me")]
    /\ UNCHANGED users
    /\ UNCHANGED msgvars

\* Lines 194-198: the accepter's document updated.
acceptFriendRequest_me(p) ==
  /\ calls[p].pc = "ac_me"
  /\ LET c == calls[p] IN
     /\ findByIdAndUpdate(c.me, acceptFriendRequest_meUpdate(users[c.me], c.uid))
     /\ calls' = [calls EXCEPT ![p] = At(c, "ac_other")]
  /\ UNCHANGED ncalls
  /\ UNCHANGED msgvars

\* Lines 200-209: the requester's document updated.  A request can only come
\* from a stored user, so the document exists.
acceptFriendRequest_other(p) ==
  /\ calls[p].pc = "ac_other"
  /\ LET c == calls[p] IN
     /\ findByIdAndUpdate(c.uid, acceptFriendRequest_otherUpdate(users[c.uid], c.me))
     /\ calls' = [calls EXCEPT ![p] = At(c, "ac_reply")]
  /\ UNCHANGED ncalls
  /\ UNCHANGED msgvars

\* Lines 211-219: the socket emit and 200 "Friend request accepted".
acceptFriendRequest_reply(p) ==
  /\ calls[p].pc = "ac_reply"
  /\ \E outcome \in Pushes :
       calls' = [calls EXCEPT ![p] =
         Replied(calls[p], "Accepted", "friendRequestAccepted", outcome)]
  /\ UNCHANGED <<users, ncalls>>
  /\ UNCHANGED msgvars

\* ----------------------------------------------------- declineFriendRequest

\* Lines 228-243: userId check, `await User.findById(loggedInUserId)`, the
\* request looked up.
declineFriendRequest_check(p) ==
  \E me \in DOMAIN users, uid \in BodyIds :
    /\ Accept(p)
    /\ LET c == Begin("declineFriendRequest", me, uid)
           currentUser == findById(me)
       IN calls' = [calls EXCEPT ![p] =
            IF uid = Missing THEN Done(c, "ValidationError", "none")
            ELSE IF ~findRequest(currentUser.friendRequests, uid)
              THEN Done(c, "NotFound", "none")
            ELSE At(c, "de_me")]
    /\ UNCHANGED users
    /\ UNCHANGED msgvars

\* Lines 245-250: the caller's document updated, 200 "Friend request declined".
declineFriendRequest_me(p) ==
  /\ calls[p].pc = "de_me"
  /\ LET c == calls[p] IN
     /\ findByIdAndUpdate(c.me, declineFriendRequest_update(users[c.me], c.uid))
     /\ calls' = [calls EXCEPT ![p] = Done(c, "Declined", "none")]
  /\ UNCHANGED ncalls
  /\ UNCHANGED msgvars

\* -------------------------------------------------------------- removeFriend

\* Lines 308-319: userId check, `await User.findById(loggedInUserId)`, the
\* friendship looked up.
removeFriend_check(p) ==
  \E me \in DOMAIN users, uid \in BodyIds :
    /\ Accept(p)
    /\ LET c == Begin("removeFriend", me, uid)
           currentUser == findById(me)
       IN calls' = [calls EXCEPT ![p] =
            IF uid = Missing THEN Done(c, "ValidationError", "none")
            ELSE IF ~includes(currentUser.friends, uid)
              THEN Done(c, "NotFriends", "none")
            ELSE At(c, "rm_me")]
    /\ UNCHANGED users
    /\ UNCHANGED msgvars

\* Lines 321-324: the caller's document updated.
removeFriend_me(p) ==
  /\ calls[p].pc = "rm_me"
  /\ LET c == calls[p] IN
     /\ findByIdAndUpdate(c.me, removeFriend_update(users[c.me], c.uid))
     /\ calls' = [calls EXCEPT ![p] = At(c, "rm_other")]
  /\ UNCHANGED ncalls
  /\ UNCHANGED msgvars

\* Lines 326-330: the friend's document updated, 200 "Friend removed
\* successfully".  An id in the caller's list is the id of a stored user.
removeFriend_other(p) ==
  /\ calls[p].pc = "rm_other"
  /\ LET c == calls[p] IN
     /\ findByIdAndUpdate(c.uid, removeFriend_update(users[c.uid], c.me))
     /\ calls' = [calls EXCEPT ![p] = Done(c, "Removed", "none")]
  /\ UNCHANGED ncalls
  /\ UNCHANGED msgvars

\* ------------------------------------------------------------------ pinChat

\* pinChat with the $push made before the checks, whatever they answer.
pinChat_check_pushing(p) ==
  \E me \in DOMAIN users, uid \in BodyIds :
    /\ Accept(p)
    /\ LET c == Begin("pinChat", me, uid)
           currentUser == findById(me)
       IN calls' = [calls EXCEPT ![p] =
            IF uid = Missing THEN Done(c, "ValidationError", "none")
            ELSE IF ~includes(currentUser.friends, uid)
              THEN Done(c, "NotFriends", "none")
            ELSE IF includes(currentUser.pinnedChats, uid)
              THEN Done(c, "AlreadyPinned", "none")
            ELSE IF Len(currentUser.pinnedChats) >= PinLimit
              THEN Done(c, "PinLimitExceeded", "none")
            ELSE Done(c, "Pinned", "none")]
    /\ findByIdAndUpdate(me, [users[me] EXCEPT !.pinnedChats = Append(@, uid)])
    /\ UNCHANGED msgvars

\* Lines 359-380: userId check, `await User.findById(loggedInUserId)`, the
\* three checks on the document read.
pinChat_check(p) ==
  \E me \in DOMAIN users, uid \in BodyIds :
    /\ Accept(p)
    /\ LET c == Begin("pinChat", me, uid)
           currentUser == findById(me)
       IN calls' = [calls EXCEPT ![p] =
            IF uid = Missing THEN Done(c, "ValidationError", "none")
            ELSE IF ~includes(currentUser.friends, uid)
              THEN Done(c, "NotFriends", "none")
            ELSE IF includes(currentUser.pinnedChats, uid)
              THEN Done(c, "AlreadyPinned", "none")
            ELSE IF Len(currentUser.pinnedChats) >= PinLimit
              THEN Done(c, "PinLimitExceeded", "none")
            ELSE At(c, "pin_me")]
    /\ UNCHANGED users
    /\ UNCHANGED msgvars

\* Lines 382-387: the caller's document updated, 200 "Chat pinned
\* successfully".
pinChat_push(p) ==
  /\ calls[p].pc = "pin_me"
  /\ LET c == calls[p] IN
     /\ findByIdAndUpdate(c.me, pinChat_update(users[c.me], c.uid))
     /\ calls' = [calls EXCEPT ![p] = Done(c, "Pinned", "none")]
  /\ UNCHANGED ncalls
  /\ UNCHANGED msgvars

\* ---------------------------------------------------------------- unpinChat

\* Lines 396-408: userId check, then the caller's document updated, 200 "Chat
\* unpinned successfully".
unpinChat(p) ==
  \E me \in DOMAIN users, uid \in BodyIds :
    /\ Accept(p)
    /\ LET c == Begin("unpinChat", me, uid) IN
       IF uid = Missing
         THEN /\ calls' = [calls EXCEPT ![p] = Done(c, "ValidationError", "none")]
              /\ UNCHANGED users
         ELSE /\ findByIdAndUpdate(me, unpinChat_update(users[me], uid))
              /\ calls' = [calls EXCEPT ![p] = Done(c, "Unpinned", "none")]
    /\ UNCHANGED msgvars

\* ------------------------------------------------------------ notifications

\* Lines 259-282: the caller's document read, 200 with its notifications and
\* friendRequests.  The populate calls read the name, picture and email of
\* other users, which no handler writes.
getNotifications(p) ==
  \E me \in DOMAIN users :
    /\ Accept(p)
    /\ LET c == Begin("getNotifications", me, Missing)
           user == findById(me)
       IN calls' = [calls EXCEPT ![p] =
            [Done(c, "Ok", "none") EXCEPT
               !.body = <<user.notifications, user.friendRequests>>]]
    /\ UNCHANGED <<users, messages, now>>

\* Lines 291-299: one updateMany on the caller's document, 200 "Notifications
\* marked as read".
markNotificationsAsRead(p) ==
  \E me \in DOMAIN users :
    /\ Accept(p)
    /\ findByIdAndUpdate(me, markNotificationsAsRead_update(users[me]))
    /\ calls' = [calls EXCEPT ![p] =
         Done(Begin("markNotificationsAsRead", me, Missing), "Ok", "none")]
    /\ UNCHANGED <<messages, now>>

\* -------------------------------------------------------------- sendMessage

\* A document of the Message collection: {senderId, receiverId, text, file,
\* createdAt}.  The text is passed through and is not modelled; file is
\* whether the message carries an uploaded attachment.
Message(senderId, receiverId, file, createdAt) ==
  [senderId |-> senderId, receiverId |-> receiverId, file |-> file,
   createdAt |-> createdAt]

\* updateLastInteraction, lines 420-422 and 425-427:
\* $set: { lastInteractions.<peer>: currentTime }.
updateLastInteraction_update(doc, peer, currentTime) ==
  [doc EXCEPT !.lastInteractions =
     [k \in DOMAIN @ \cup {peer} |-> IF k = peer THEN currentTime ELSE @[k]]]

\* A failed upload answered as a message sent and delivered.
sendMessage_uploadFailed_sent(c) == Replied(c, "Sent", "newMessage", "delivered")

\* Lines 450-451 reached with the upload thrown: the catch of lines 473-476
\* answers 500 "Internal server error".
sendMessage_uploadFailed(c) == Done(c, "InternalFailure", "none")

\* Lines 435-451: the sender from the session, the receiver from the route,
\* and `await cloudinary.uploader.upload(..)` when the body carries a file.
\* Neither user is looked up.
sendMessage_upload(p) ==
  \E me \in DOMAIN users, id \in DOMAIN users \cup {Stranger}, file \in BOOLEAN :
    \E uploaded \in (IF file THEN BOOLEAN ELSE {TRUE}) :
      /\ Accept(p)
      /\ ncalls < MaxSends
      /\ LET c == [Begin("sendMessage", me, id) EXCEPT !.file = file] IN
         calls' = [calls EXCEPT ![p] =
           IF uploaded THEN At(c, "sm_save") ELSE sendMessage_uploadFailed(c)]
      /\ UNCHANGED <<users, messages, now>>

\* Lines 453-460: `await newMessage.save()`.
sendMessage_save(p) ==
  /\ calls[p].pc = "sm_save"
  /\ LET c == calls[p]
         newMessage == Message(c.me, c.uid, c.file, now)
     IN /\ messages' = Append(messages, newMessage)
        /\ calls' = [calls EXCEPT ![p] =
             [At(c, "sm_time") EXCEPT !.body = <<newMessage>>]]
  /\ UNCHANGED <<users, ncalls, now>>

\* Line 417: `const currentTime = new Date()`, read when the save has returned.
updateLastInteraction_time(p) ==
  /\ calls[p].pc = "sm_time"
  /\ calls' = [calls EXCEPT ![p] =
       [At(calls[p], "sm_sender") EXCEPT !.currentTime = now]]
  /\ UNCHANGED <<users, ncalls, messages, now>>

\* Lines 419-422: the sender's document updated.
updateLastInteraction_sender(p) ==
  /\ calls[p].pc = "sm_sender"
  /\ LET c == calls[p] IN
     /\ findByIdAndUpdate(c.me,
          updateLastInteraction_update(users[c.me], c.uid, c.currentTime))
     /\ calls' = [calls EXCEPT ![p] = At(c, "sm_receiver")]
  /\ UNCHANGED <<ncalls, messages, now>>

\* Lines 424-427: the receiver's document updated; no such document, no
\* change and no error.
updateLastInteraction_receiver(p) ==
  /\ calls[p].pc = "sm_receiver"
  /\ LET c == calls[p] IN
     /\ IF c.uid \in DOMAIN users
          THEN findByIdAndUpdate(c.uid,
                 updateLastInteraction_update(users[c.uid], c.me, c.currentTime))
          ELSE UNCHANGED users
     /\ calls' = [calls EXCEPT ![p] = At(c, "sm_emit")]
  /\ UNCHANGED <<ncalls, messages, now>>

\* Lines 467-472: the socket emit and 201 with newMessage.
sendMessage_reply(p) ==
  /\ calls[p].pc = "sm_emit"
  /\ \E outcome \in Pushes :
       calls' = [calls EXCEPT ![p] =
         [Replied(calls[p], "Sent", "newMessage", outcome) EXCEPT
            !.body = IF outcome = "fault" THEN Nothing ELSE calls[p].body]]
  /\ UNCHANGED <<users, ncalls, messages, now>>

\* The clock moves on.
Tick ==
  /\ now < MaxTime
  /\ now' = now + 1
  /\ UNCHANGED <<users, calls, ncalls, messages>>

\* ------------------------------------------------------- getUsersForSidebar

\* populate({path: ..}): every id replaced by the document it refers to; an id
\* of no document is dropped.
populate(ids) == SelectSeq(ids, LAMBDA id : id \in DOMAIN users)

\* Lines 27-38: friends.map(..), one entry per element of the populated
\* friends array, with its lastInteractionTime (or new Date(0)) and isPinned.
friendsWithMetadata(currentUser) ==
  LET friends == populate(currentUser.friends)
      pinnedChats == populate(currentUser.pinnedChats)
  IN [i \in 1..Len(friends) |->
        [id |-> friends[i],
         lastInteractionTime |->
           IF friends[i] \in DOMAIN currentUser.lastInteractions
             THEN currentUser.lastInteractions[friends[i]] ELSE Epoch,
         isPinned |-> includes(pinnedChats, friends[i])]]

\* Lines 41-48: the comparator; negative puts a first.
compare(a, b) ==
  IF a.isPinned /\ ~b.isPinned THEN -1
  ELSE IF ~a.isPinned /\ b.isPinned THEN 1
  ELSE b.lastInteractionTime - a.lastInteractionTime

\* Array.prototype.sort: stable, so an element goes after every element that
\* does not have to come after it.
RECURSIVE inserted(_, _)
inserted(arr, x) ==
  IF arr = <<>> THEN <<x>>
  ELSE IF compare(arr[Len(arr)], x) <= 0 THEN Append(arr, x)
  ELSE Append(inserted(SubSeq(arr, 1, Len(arr) - 1), x), arr[Len(arr)])

RECURSIVE sort(_)
sort(arr) ==
  IF arr = <<>> THEN <<>>
  ELSE inserted(sort(SubSeq(arr, 1, Len(arr) - 1)), arr[Len(arr)])

\* Lines 9-55: the caller's document read and populated, 200 with the sorted
\* entries.
getUsersForSidebar(p) ==
  \E me \in DOMAIN users :
    /\ Accept(p)
    /\ LET c == Begin("getUsersForSidebar", me, Missing)
           currentUser == findById(me)
       IN calls' = [calls EXCEPT ![p] =
            [Done(c, "Ok", "none") EXCEPT
               !.body = sort(friendsWithMetadata(currentUser))]]
    /\ UNCHANGED <<users, messages, now>>

\* ------------------------------------------------------------ specification

\* The collection right after sign-up: every document has the schema defaults.
Fresh == [u \in Users |-> NewUser]

\* The collection coll after x has sent y a friend request and y has accepted
\* it, the two handlers running one after the other (lines 150-158, 195-209).
Befriended(coll, x, y) ==
  LET sent == Updated(coll, y, addFriend_requestUpdate(coll[y], x))
      mine == Updated(sent, y, acceptFriendRequest_meUpdate(sent[y], x))
  IN Updated(mine, x, acceptFriendRequest_otherUpdate(mine[x], y))

\* The collections a behaviour starts from: the fresh one, and one in which
\* "a" already has the friends "b" and "c" (four requests served earlier).
Seeds == {Fresh, Befriended(Befriended(Fresh, "b", "a"), "c", "a")}

\* No request taken yet, no message saved, the clock at its first reading.
Started ==
  /\ calls = [p \in Procs |-> Idle]
  /\ ncalls = 0
  /\ messages = <<>>
  /\ now = 1

Init ==
  /\ users \in Seeds
  /\ Started

Next ==
  \E p \in Procs :
    \/ addFriend_findTarget(p)
    \/ addFriend_check(p)
    \/ addFriend_acceptMe(p)
    \/ addFriend_acceptOther(p)
    \/ addFriend_replyAccepted(p)
    \/ addFriend_request(p)
    \/ addFriend_replySent(p)
    \/ acceptFriendRequest_check(p)
    \/ acceptFriendRequest_me(p)
    \/ acceptFriendRequest_other(p)
    \/ acceptFriendRequest_reply(p)
    \/ declineFriendRequest_check(p)
    \/ declineFriendRequest_me(p)
    \/ removeFriend_check(p)
    \/ removeFriend_me(p)
    \/ removeFriend_other(p)
    \/ pinChat_check(p)
    \/ pinChat_push(p)
    \/ unpinChat(p)

Spec == Init /\ [][Next]_vars

\* The handlers of Next with the two notification routes, from sign-up.
InitNotif ==
  /\ users = Fresh
  /\ Started

NextNotif ==
  \/ Next
  \/ \E p \in Procs :
       \/ getNotifications(p)
       \/ markNotificationsAsRead(p)

SpecNotif == InitNotif /\ [][NextNotif]_vars

\* Two users and nothing but messages between them (or to a stranger).
InitMsg ==
  /\ users = [u \in Pair |-> NewUser]
  /\ Started

NextMsg ==
  \/ Tick
  \/ \E p \in Procs :
       \/ sendMessage_upload(p)
       \/ sendMessage_save(p)
       \/ updateLastInteraction_time(p)
       \/ updateLastInteraction_sender(p)
       \/ updateLastInteraction_receiver(p)
       \/ sendMessage_reply(p)

SpecMsg == InitMsg /\ [][NextMsg]_vars

\* The store of four users, as after sign-up.
FreshEveryone == [u \in Everyone |-> NewUser]

\* "a" with the friends "b", "c" and "d" (six requests served earlier).
ThreeFriends ==
  Befriended(Befriended(Befriended(FreshEveryone, "b", "a"), "c", "a"), "d", "a")

\* The same after pinChat(a, b) and pinChat(a, c), one after the other
\* (lines 383-385).
TwoPinned ==
  LET first == Updated(ThreeFriends, "a", pinChat_update(ThreeFriends["a"], "b"))
  IN Updated(first, "a", pinChat_update(first["a"], "c"))

InitPin ==
  /\ users \in {ThreeFriends, TwoPinned}
  /\ Started

NextPin ==
  \E p \in Procs :
    \/ pinChat_check(p)
    \/ pinChat_push(p)
    \/ unpinChat(p)

SpecPin == InitPin /\ [][NextPin]_vars

\* The arrays of at most n ids of users other than "a".
Arrays(n) == UNION {[1..k -> Everyone \ {"a"}] : k \in 0..n}

\* The Maps from some of those ids to a reading of the clock.
Interactions ==
  UNION {[peers -> 1..MaxTime] : peers \in SUBSET (Everyone \ {"a"})}

\* The documents of "a" with some friends, pins and interaction times, in any
\* order and with the repetitions that concurrent calls can leave.
SidebarDocs ==
  {[NewUser EXCEPT !.friends = f, !.pinnedChats = pins, !.lastInteractions = li] :
     f \in Arrays(MaxFriends), pins \in Arrays(PinLimit), li \in Interactions}

InitSidebar ==
  /\ users \in {[FreshEveryone EXCEPT !["a"] = doc] : doc \in SidebarDocs}
  /\ Started

NextSidebar == \E p \in Procs : getUsersForSidebar(p)

SpecSidebar == InitSidebar /\ [][NextSidebar]_vars

\* =================================================================== claims

\* Every request accepted so far has been answered.
Quiescent == \A p \in Procs : Free(p)

\* The slot whose handler took the step: its record has changed, or it is the
\* slot that has taken a new request and answered it as the last one.
Stepped(p) ==
  \/ calls'[p] /= calls[p]
  \/ /\ calls' = calls /\ ncalls' /= ncalls
     /\ Free(p) /\ \A q \in Procs : q < p => ~Free(q)

FriendsOf(u) == users[u].friends
RequestsOf(u) == users[u].friendRequests
PinnedOf(u) == users[u].pinnedChats
NotificationsOf(u) == users[u].notifications

NoDuplicates(arr) == \A i, j \in 1..Len(arr) : i /= j => arr[i] /= arr[j]

\* How many requests from `from` the array holds.
CountFrom(reqs, from) == Cardinality({i \in 1..Len(reqs) : reqs[i].from = from})

\* C1.  Friendship symmetry: once every call has completed, B is in
\* friends(A) if and only if A is in friends(B), for all users A and B.
C1_FriendshipSymmetry ==
  Quiescent =>
    \A A, B \in Users : includes(FriendsOf(A), B) <=> includes(FriendsOf(B), A)

\* C2.  Pinned chats are friends: once every call has completed, every id in
\* pinnedChats(U) is also in friends(U), for every user U.
C2_PinnedAreFriends ==
  Quiescent =>
    \A U \in Users : \A i \in 1..Len(PinnedOf(U)) :
      includes(FriendsOf(U), PinnedOf(U)[i])

\* C3.  Pin limit under races: pinnedChats(U) never holds more than 2 entries
\* and never the same target twice, for every user U.
C3_PinLimitUnderRaces ==
  \A U \in Users : arrayLimit(PinnedOf(U)) /\ NoDuplicates(PinnedOf(U))

\* C3, the state the claim excludes: a user with more than 2 pinned chats.
C3_OverLimit == \E U \in Users : Len(PinnedOf(U)) > PinLimit

\* C4.  Reciprocal race end state: when the only two calls served are
\* sendFriendRequest(A,B) and sendFriendRequest(B,A) and both have completed,
\* A and B are in each other's friends and neither holds a request from the
\* other; and two opposite pending requests never persist once all calls have
\* completed.
C4_ReciprocalEndState ==
  Quiescent =>
    \A A, B \in Users : A /= B =>
      /\ ~(findRequest(RequestsOf(A), B) /\ findRequest(RequestsOf(B), A))
      /\ ( /\ ncalls = 2
           /\ \E p, q \in Procs :
                /\ p /= q
                /\ calls[p].op = "addFriend" /\ calls[p].me = A /\ calls[p].uid = B
                /\ calls[q].op = "addFriend" /\ calls[q].me = B /\ calls[q].uid = A )
         => /\ includes(FriendsOf(A), B) /\ includes(FriendsOf(B), A)
            /\ ~findRequest(RequestsOf(A), B) /\ ~findRequest(RequestsOf(B), A)

\* The notifications of every user, in a collection.
Notifs(coll) == [u \in Users |-> coll[u].notifications]

\* The call in slot p is on addFriend's auto-accept branch.
AutoAccepting(p) ==
  calls[p].pc \in {"af_acceptMe", "af_acceptOther", "af_replyAccepted"}

\* C5 as stated.  Reciprocal auto-accept notification: the auto-accept branch
\* of sendFriendRequest(from, to), for distinct users, appends one
\* FriendAccepted notification in total, to `to`, and nothing to the
\* notifications of the caller `from`.
C5_OneNotification ==
  [][\A p \in Procs :
       (AutoAccepting(p) /\ Stepped(p) /\ calls[p].me /= calls[p].uid) =>
         LET from == calls[p].me
             to == calls[p].uid
         IN IF calls[p].pc = "af_acceptOther"
              THEN Notifs(users') = [Notifs(users) EXCEPT ![to] =
                     Append(@, Notification("friend_accepted", from))]
              ELSE Notifs(users') = Notifs(users)]_vars

\* C5 as amended.  sendFriendRequest(from, to) takes its auto-accept branch
\* when the documents it read show no friendship, no request from `from` at
\* `to` and a request from `to` at `from`; up to there it appends nothing, and
\* the branch then appends exactly two notifications, both FriendAccepted:
\* first one to the caller `from` with sender `to`, then one to `to` with
\* sender `from`, and no FriendRequest notification.
C5_TwoNotifications ==
  [][\A p \in Procs : (Stepped(p) /\ calls'[p].op = "addFriend") =>
       LET from == calls'[p].me
           to == calls'[p].uid
       IN /\ (Free(p) \/ calls[p].pc = "af_me") => users' = users
          /\ (calls[p].pc = "af_me" /\ ~includes(FriendsOf(from), to)
                /\ ~findRequest(calls[p].userToAdd, from)
                /\ findRequest(RequestsOf(from), to))
             => calls'[p].pc = "af_acceptMe"
          /\ calls[p].pc = "af_acceptMe" =>
               /\ Notifs(users') = [Notifs(users) EXCEPT ![from] =
                    Append(@, Notification("friend_accepted", to))]
               /\ calls'[p].pc = "af_acceptOther"
          /\ calls[p].pc = "af_acceptOther" =>
               /\ Notifs(users') = [Notifs(users) EXCEPT ![to] =
                    Append(@, Notification("friend_accepted", from))]
               /\ calls'[p].pc = "af_replyAccepted"
          /\ calls[p].pc = "af_replyAccepted" =>
               /\ Notifs(users') = Notifs(users)
               /\ calls'[p].pc = "done"]_vars

\* C5, the case reached: an auto-accept has completed between two users and
\* each of them holds a FriendAccepted notification from the other.
C5_AutoAccepted ==
  \E p \in Procs :
    /\ calls[p].pc = "done" /\ calls[p].res = "FriendAdded"
    /\ calls[p].me /= calls[p].uid
    /\ includes(NotificationsOf(calls[p].me),
                Notification("friend_accepted", calls[p].uid))
    /\ includes(NotificationsOf(calls[p].uid),
                Notification("friend_accepted", calls[p].me))

\* C6.  Atomic friendship formation: between the two updates of an accept or
\* of an auto-accept, the two users' friends lists agree about each other.
C6_AtomicFormation ==
  \A p \in Procs : calls[p].pc \in {"af_acceptOther", "ac_other"} =>
    (includes(FriendsOf(calls[p].me), calls[p].uid)
       <=> includes(FriendsOf(calls[p].uid), calls[p].me))

\* C7.  No self-friendship and no duplicate edges: once every call has
\* completed, no user is in their own friends list and no id occurs twice in
\* a friends list.
C7_NoSelfNoDuplicate ==
  Quiescent =>
    \A U \in Users : ~includes(FriendsOf(U), U) /\ NoDuplicates(FriendsOf(U))

\* C8.  No pending request from a friend: once every call has completed, if B
\* is in friends(A) then friendRequests(A) holds no request from B, for all
\* distinct users A and B.
C8_NoRequestFromFriend ==
  Quiescent =>
    \A A, B \in Users :
      (A /= B /\ includes(FriendsOf(A), B)) => ~findRequest(RequestsOf(A), B)

\* C9.  At most one pending request per sender: friendRequests(B) never holds
\* more than one request from A, for all distinct users A and B.
C9_OneRequestPerSender ==
  \A A, B \in Users : A /= B => CountFrom(RequestsOf(B), A) <= 1

\* C10.  Accept effect: acceptFriendRequest(accepter, requester) answers
\* NotFound and changes nothing when the accepter holds no request from the
\* requester; otherwise it removes that request and appends the requester to
\* the accepter's friends, then appends the accepter to the requester's
\* friends and one unread FriendAccepted notification (from the accepter) to
\* the requester's notifications, and never changes the accepter's
\* notifications.
C10_AcceptEffect ==
  [][\A p \in Procs : (Stepped(p) /\ calls'[p].op = "acceptFriendRequest") =>
       LET accepter == calls'[p].me
           requester == calls'[p].uid
       IN /\ users'[accepter].notifications = users[accepter].notifications
          /\ (Free(p) /\ requester \in Users) =>
               IF findRequest(RequestsOf(accepter), requester)
                 THEN calls'[p].pc = "ac_me" /\ users' = users
                 ELSE calls'[p].res = "NotFound" /\ users' = users
          /\ calls[p].pc = "ac_me" =>
               users' = [users EXCEPT
                 ![accepter].friendRequests = pullRequests(@, requester),
                 ![accepter].friends = Append(@, requester)]
          /\ calls[p].pc = "ac_other" =>
               /\ users'[requester].friends = Append(FriendsOf(requester), accepter)
               /\ users'[requester].notifications =
                    Append(NotificationsOf(requester),
                           Notification("friend_accepted", accepter))
               /\ users'[requester].friendRequests = RequestsOf(requester)
               /\ users'[requester].pinnedChats = PinnedOf(requester)
               /\ \A u \in Users \ {requester} : users'[u] = users[u]
          /\ calls[p].pc = "ac_reply" =>
               users' = users /\ calls'[p].pc = "done"]_vars

\* C10 for two different users: the same effect, which holds whenever the
\* accepter is not the requester.
C10_AcceptEffectDistinct ==
  [][\A p \in Procs :
       (Stepped(p) /\ calls'[p].op = "acceptFriendRequest"
          /\ calls'[p].me /= calls'[p].uid) =>
       LET accepter == calls'[p].me
           requester == calls'[p].uid
       IN /\ users'[accepter].notifications = users[accepter].notifications
          /\ (Free(p) /\ requester \in Users) =>
               IF findRequest(RequestsOf(accepter), requester)
                 THEN calls'[p].pc = "ac_me" /\ users' = users
                 ELSE calls'[p].res = "NotFound" /\ users' = users
          /\ calls[p].pc = "ac_me" =>
               users' = [users EXCEPT
                 ![accepter].friendRequests = pullRequests(@, requester),
                 ![accepter].friends = Append(@, requester)]
          /\ calls[p].pc = "ac_other" =>
               users' = [users EXCEPT
                 ![requester].friends = Append(@, accepter),
                 ![requester].notifications =
                    Append(@, Notification("friend_accepted", accepter))]
          /\ calls[p].pc = "ac_reply" =>
               users' = users /\ calls'[p].pc = "done"]_vars

\* C10, the case reached: the accepter's own request to themselves has been
\* accepted, and the accept has put a notification in the accepter's list.
C10_SelfAccepted ==
  \E p \in Procs :
    /\ calls[p].pc = "done" /\ calls[p].op = "acceptFriendRequest"
    /\ calls[p].res = "Accepted" /\ calls[p].me = calls[p].uid
    /\ includes(NotificationsOf(calls[p].me),
                Notification("friend_accepted", calls[p].me))

\* C16.  Decline effect: declineFriendRequest(accepter, requester) answers
\* NotFound and changes nothing when the accepter holds no request from the
\* requester; otherwise it removes the request from the requester, answers
\* success with no realtime event, and changes nothing else: no notification
\* and no friends list of any user.
C16_DeclineEffect ==
  [][\A p \in Procs : (Stepped(p) /\ calls'[p].op = "declineFriendRequest") =>
       LET accepter == calls'[p].me
           requester == calls'[p].uid
       IN /\ (Free(p) /\ requester /= Missing) =>
               /\ users' = users
               /\ IF \E i \in 1..Len(RequestsOf(accepter)) :
                       RequestsOf(accepter)[i].from = requester
                    THEN calls'[p].pc = "de_me"
                    ELSE calls'[p].pc = "done" /\ calls'[p].res = "NotFound"
          /\ calls[p].pc = "de_me" =>
               /\ users' = [users EXCEPT ![accepter].friendRequests =
                    SelectSeq(@, LAMBDA r : r.from /= requester)]
               /\ calls'[p].pc = "done" /\ calls'[p].res = "Declined"
               /\ calls'[p].emit = "none"]_vars

\* C16, the case reached: a decline has succeeded; the accepter holds no
\* request from the requester any more, still has the notification of that
\* request, and the two are not friends.
C16_Declined ==
  \E p \in Procs :
    /\ calls[p].pc = "done" /\ calls[p].op = "declineFriendRequest"
    /\ calls[p].res = "Declined" /\ calls[p].me /= calls[p].uid
    /\ ~findRequest(RequestsOf(calls[p].me), calls[p].uid)
    /\ includes(NotificationsOf(calls[p].me),
                Notification("friend_request", calls[p].uid))
    /\ ~includes(FriendsOf(calls[p].me), calls[p].uid)
    /\ ~includes(FriendsOf(calls[p].uid), calls[p].me)

\* C17.  Pin limit and release.  pinChat(U, T) for a friend T that is not
\* pinned: with two chats pinned it answers PinLimitExceeded and changes
\* nothing; with fewer it appends T after the pins there are and answers
\* success.  unpinChat(U, T) answers success and removes T from pinnedChats(U),
\* which leaves the list as it was when T is not pinned.  (So with B and C
\* pinned, D is refused; and after unpinChat(U, B), pinning D gives [C, D].)
C17_PinLimitAndRelease ==
  [][\A p \in Procs : Stepped(p) =>
       LET U == calls'[p].me
           T == calls'[p].uid
       IN /\ ( /\ Free(p) /\ calls'[p].op = "pinChat" /\ T /= Missing
               /\ includes(FriendsOf(U), T) /\ ~includes(PinnedOf(U), T) )
             => /\ users' = users
                /\ IF Len(PinnedOf(U)) >= 2
                     THEN calls'[p].pc = "done" /\ calls'[p].res = "PinLimitExceeded"
                     ELSE calls'[p].pc = "pin_me"
          /\ calls[p].pc = "pin_me" =>
               /\ users' = [users EXCEPT ![U].pinnedChats = Append(@, T)]
               /\ calls'[p].pc = "done" /\ calls'[p].res = "Pinned"
          /\ (calls'[p].op = "unpinChat" /\ T /= Missing) =>
               /\ calls'[p].pc = "done" /\ calls'[p].res = "Unpinned"
               /\ users' = [users EXCEPT ![U].pinnedChats =
                    SelectSeq(@, LAMBDA e : e /= T)]
               /\ ~includes(PinnedOf(U), T) => users' = users]_vars

\* C17, the case reached: "a", friend of "b", "c" and "d", had "b" and "c"
\* pinned; after three calls, the last of them a successful pinChat(a, d),
\* the pinned chats are exactly [c, d].
C17_Released ==
  /\ users["a"].friends = <<"b", "c", "d">>
  /\ PinnedOf("a") = <<"c", "d">>
  /\ ncalls = 3
  /\ \E p \in Procs :
       /\ calls[p].pc = "done" /\ calls[p].op = "pinChat" /\ calls[p].res = "Pinned"
       /\ calls[p].me = "a" /\ calls[p].uid = "d"

\* ---------------------------------------------------------------- messages

LastInteractionsOf(u) == users[u].lastInteractions

\* lastInteractions.get(peer), Epoch standing for "no entry" (every recorded
\* time is a reading of the clock, which starts at 1).
LastInteraction(u, peer) ==
  IF peer \in DOMAIN LastInteractionsOf(u) THEN LastInteractionsOf(u)[peer]
  ELSE Epoch

\* The ids that identify a stored user.
Existing == DOMAIN users

\* C11.  sendMessage to or from a non-existent user fails with NotFound: no
\* message record has a sender or a receiver that is not an existing user, no
\* lastInteraction entry is kept for such an id, and a completed sendMessage
\* to such an id (without attachment, so that no upload can fail first) has
\* answered NotFound.
C11_NotFoundForStranger ==
  /\ \A i \in 1..Len(messages) :
       messages[i].senderId \in Existing /\ messages[i].receiverId \in Existing
  /\ \A u \in Existing : DOMAIN LastInteractionsOf(u) \subseteq Existing
  /\ \A p \in Procs :
       ( /\ calls[p].pc = "done" /\ calls[p].op = "sendMessage"
         /\ calls[p].uid \notin Existing /\ ~calls[p].file )
       => calls[p].res = "NotFound"

\* C11, the case reached: a message to an id of no user has been saved, the
\* sender's lastInteractions has an entry for that id, and the call has
\* answered 201.
C11_SentToStranger ==
  \E p \in Procs :
    /\ calls[p].pc = "done" /\ calls[p].op = "sendMessage"
    /\ calls[p].uid = Stranger /\ calls[p].res = "Sent"
    /\ \E i \in 1..Len(messages) : messages[i].receiverId = Stranger
    /\ Stranger \in DOMAIN LastInteractionsOf(calls[p].me)

\* C12.  lastInteraction symmetry: once every sendMessage call has completed,
\* lastInteraction(A)[B] equals lastInteraction(B)[A] for all existing users A
\* and B (the same timestamp, or no entry on either side).
C12_LastInteractionSymmetry ==
  Quiescent =>
    \A A, B \in Existing :
      /\ (B \in DOMAIN LastInteractionsOf(A)) <=> (A \in DOMAIN LastInteractionsOf(B))
      /\ LastInteraction(A, B) = LastInteraction(B, A)

\* C12, the case reached: every call has completed and two users hold
\* different times for each other.
C12_Asymmetric ==
  /\ Quiescent
  /\ \E A, B \in Existing :
       /\ A /= B
       /\ B \in DOMAIN LastInteractionsOf(A) /\ A \in DOMAIN LastInteractionsOf(B)
       /\ LastInteractionsOf(A)[B] /= LastInteractionsOf(B)[A]

\* C14.  Upload failure is clean: the first step of a sendMessage that carries
\* an attachment is the upload; it saves no message and changes no document,
\* and when it ends the call (the upload has failed) the answer is a failure,
\* with no message in it and no realtime event.
C14_UploadFailureClean ==
  [][\A p \in Procs :
       (Stepped(p) /\ Free(p) /\ calls'[p].op = "sendMessage" /\ calls'[p].file) =>
         /\ messages' = messages
         /\ users' = users
         /\ calls'[p].pc \in {"done", "sm_save"}
         /\ calls'[p].pc = "done" =>
              /\ calls'[p].res = "InternalFailure"
              /\ calls'[p].emit = "none"
              /\ calls'[p].body = Nothing]_vars

\* C14, the case reached: a sendMessage with an attachment has failed while
\* nothing was ever saved or recorded.
C14_UploadFailed ==
  \E p \in Procs :
    /\ calls[p].pc = "done" /\ calls[p].op = "sendMessage" /\ calls[p].file
    /\ calls[p].res = "InternalFailure"
    /\ messages = <<>>
    /\ \A u \in Existing : LastInteractionsOf(u) = NoInteractions

\* A sendMessage call whose message record has been saved.
Persisted(p) == calls[p].pc \in {"sm_time", "sm_sender", "sm_receiver", "sm_emit"}

\* C15.  Realtime delivery never fails the send: once sendMessage has saved
\* its message record, the call goes on to answer success with that message,
\* whatever becomes of the push.
C15_DeliveryNeverFailsSend ==
  [][\A p \in Procs : (Stepped(p) /\ Persisted(p)) =>
       /\ calls'[p].op = "sendMessage"
       /\ calls'[p].pc = "done" =>
            /\ calls'[p].res = "Sent"
            /\ calls'[p].body = calls[p].body]_vars

\* C15, the case reached: a message is in the collection and the call that
\* saved it has answered 500.
C15_SavedButFailed ==
  \E p \in Procs :
    /\ calls[p].pc = "done" /\ calls[p].op = "sendMessage"
    /\ calls[p].res = "InternalFailure" /\ ~calls[p].file
    /\ \E i \in 1..Len(messages) :
         messages[i].senderId = calls[p].me /\ messages[i].receiverId = calls[p].uid

\* ----------------------------------------------------------------- sidebar

\* The sidebar answered by the call in slot p.
Sidebar(p) == calls[p].body

AnsweredSidebar(p) ==
  calls[p].pc = "done" /\ calls[p].op = "getUsersForSidebar"

\* The entries of `out` are in the claimed order for user U: every pinned
\* friend before every friend that is not pinned, and within each of the two
\* groups by lastInteraction(U)[friend], latest first, no entry counting as
\* the epoch.
InSidebarOrder(out, U) ==
  \A i, j \in 1..Len(out) : i < j =>
    LET f == out[i].id
        g == out[j].id
    IN /\ includes(PinnedOf(U), g) => includes(PinnedOf(U), f)
       /\ (includes(PinnedOf(U), f) <=> includes(PinnedOf(U), g))
            => LastInteraction(U, f) >= LastInteraction(U, g)

\* C13.  Sidebar ordering: sidebar(U) lists exactly the friends of U, each
\* once, pinned friends before the others and each group by lastInteraction,
\* latest first, a friend with no recorded interaction counting as the epoch.
C13_SidebarOrdering ==
  \A p \in Procs : AnsweredSidebar(p) =>
    LET U == calls[p].me
        out == Sidebar(p)
    IN /\ {out[i].id : i \in 1..Len(out)} = {FriendsOf(U)[i] : i \in 1..Len(FriendsOf(U))}
       /\ \A i, j \in 1..Len(out) : i /= j => out[i].id /= out[j].id
       /\ InSidebarOrder(out, U)

\* C13 but for "each once": the sidebar has one entry per element of the
\* friends array, with that friend's own time and pin flag, in the claimed
\* order.  This holds.
C13_OrderedPerEntry ==
  \A p \in Procs : AnsweredSidebar(p) =>
    LET U == calls[p].me
        out == Sidebar(p)
    IN /\ Len(out) = Len(FriendsOf(U))
       /\ \A f \in Everyone :
            Cardinality({i \in 1..Len(out) : out[i].id = f})
              = Cardinality({i \in 1..Len(FriendsOf(U)) : FriendsOf(U)[i] = f})
       /\ \A i \in 1..Len(out) :
            /\ out[i].isPinned <=> includes(PinnedOf(U), out[i].id)
            /\ out[i].lastInteractionTime = LastInteraction(U, out[i].id)
       /\ InSidebarOrder(out, U)

\* C13, the case reached: a sidebar that lists the same friend twice.
C13_ListedTwice ==
  \E p \in Procs : AnsweredSidebar(p) /\
    \E i, j \in 1..Len(Sidebar(p)) : i /= j /\ Sidebar(p)[i].id = Sidebar(p)[j].id

\* C13, the ordering at work: a sidebar of three different friends, the first
\* pinned and without any interaction, the other two not pinned and in the
\* order of their times, against the order of the friends array.
C13_ThreeSorted ==
  \E p \in Procs : AnsweredSidebar(p) /\
    LET out == Sidebar(p)
        U == calls[p].me
    IN /\ Len(out) = 3 /\ NoDuplicates(FriendsOf(U))
       /\ out[1].isPinned /\ out[1].lastInteractionTime = Epoch
       /\ ~out[2].isPinned /\ ~out[3].isPinned
       /\ out[2].lastInteractionTime > out[3].lastInteractionTime
       /\ FriendsOf(U) = <<out[3].id, out[2].id, out[1].id>>

\* ------------------------------------------------------------ notifications

\* C18.  Notifications are append-only: in every step, each user's
\* notifications keep their elements in place with the same kind and sender,
\* anything new comes after them, a read notification stays read, and an
\* unread one becomes read only by that user's markNotificationsAsRead.
C18_AppendOnly ==
  [][\A u \in Existing :
       LET old == users[u].notifications
           new == users'[u].notifications
       IN /\ Len(new) >= Len(old)
          /\ \A i \in 1..Len(old) :
               /\ new[i].type = old[i].type
               /\ new[i].from = old[i].from
               /\ old[i].read => new[i].read
               /\ new[i].read /= old[i].read =>
                    \E p \in Procs :
                      /\ Stepped(p)
                      /\ calls'[p].op = "markNotificationsAsRead"
                      /\ calls'[p].me = u]_vars

\* C18, the case reached: a user holds a notification already read, followed
\* by one appended since and still unread.
C18_ReadThenAppended ==
  \E u \in Existing :
    /\ Len(NotificationsOf(u)) = 2
    /\ NotificationsOf(u)[1].read
    /\ ~NotificationsOf(u)[2].read

\* The target holds a notification of that kind from that sender.
Notified(coll, target, kind, from) ==
  \E i \in 1..Len(coll[target].notifications) :
    /\ coll[target].notifications[i].type = kind
    /\ coll[target].notifications[i].from = from

\* The calls about to push, or answered with success, and the notification
\* each of them has to have stored for its target.
Owes(c, kind) ==
  \/ /\ kind = "friend_request"
     /\ \/ c.pc = "af_replySent"
        \/ c.pc = "done" /\ c.res = "RequestSent"
  \/ /\ kind = "friend_accepted"
     /\ \/ c.pc \in {"af_replyAccepted", "ac_reply"}
        \/ c.pc = "done" /\ c.res \in {"FriendAdded", "Accepted"}

\* C19.  Stored notification precedes best-effort push: a call of
\* sendFriendRequest or acceptFriendRequest pushes only in its last step, and
\* from before that step on, whatever the push comes to, the target holds the
\* notification; the step writes nothing, and with the target unreachable it
\* answers success; getNotifications answers the notifications stored.
C19_StoredBeforePush ==
  [][\A p \in Procs :
       /\ \A kind \in {"friend_request", "friend_accepted"} :
            /\ Owes(calls[p], kind) =>
                 Notified(users, calls[p].uid, kind, calls[p].me)
            /\ Owes(calls'[p], kind) =>
                 Notified(users', calls'[p].uid, kind, calls'[p].me)
       /\ (Stepped(p) /\ calls'[p].op \in {"addFriend", "acceptFriendRequest"}) =>
            /\ calls'[p].emit /= "none" =>
                 calls[p].pc \in {"af_replySent", "af_replyAccepted", "ac_reply"}
            /\ calls[p].pc \in {"af_replySent", "af_replyAccepted", "ac_reply"} =>
                 /\ users' = users
                 /\ calls'[p].pc = "done"
                 /\ calls'[p].emit = "none" =>
                      calls'[p].res \in {"RequestSent", "FriendAdded", "Accepted"}
       /\ (Stepped(p) /\ calls'[p].op = "getNotifications") =>
            calls'[p].body[1] = users[calls'[p].me].notifications]_vars

\* C19, the case reached: a friend request has succeeded with no push to the
\* unreachable target, and the target's getNotifications has answered the
\* notification of that request.
C19_SeenWithoutPush ==
  \E p, q \in Procs :
    /\ calls[p].pc = "done" /\ calls[p].res = "RequestSent"
    /\ calls[p].emit = "none" /\ calls[p].me /= calls[p].uid
    /\ calls[q].pc = "done" /\ calls[q].op = "getNotifications"
    /\ calls[q].me = calls[p].uid
    /\ includes(calls[q].body[1], Notification("friend_request", calls[p].me))

\* -------------------------------------------------------------- rejections

\* The validation and business-rule errors.
Rejections ==
  {"ValidationError", "NotFound", "AlreadyFriends", "DuplicateRequest",
   "NotFriends", "AlreadyPinned", "PinLimitExceeded"}

Guarded ==
  {"addFriend", "acceptFriendRequest", "declineFriendRequest", "removeFriend",
   "pinChat"}

\* C20.  Rejected operations change nothing: a call of sendFriendRequest,
\* acceptFriendRequest, declineFriendRequest, removeFriend or pinChat that
\* answers a validation or business-rule error has made no step that changed
\* any document (friends, friendRequests, pinnedChats, notifications,
\* lastInteractions of any user) and has pushed no realtime event.
C20_RejectedChangesNothing ==
  [][\A p \in Procs : (Stepped(p) /\ calls'[p].op \in Guarded) =>
       /\ (calls'[p].pc = "done" /\ calls'[p].res \in Rejections) =>
            /\ users' = users
            /\ calls'[p].emit = "none"
            /\ Free(p) \/ calls[p].pc = "af_me"
       /\ calls'[p].pc = "af_me" => (Free(p) /\ users' = users)]_vars

\* C20, the case reached: a pinChat rejected for the limit while the caller
\* has two pins.
C20_Rejected ==
  \E p \in Procs :
    /\ calls[p].pc = "done" /\ calls[p].op = "pinChat"
    /\ calls[p].res = "PinLimitExceeded"
    /\ Len(PinnedOf(calls[p].me)) = PinLimit

====
